---- MODULE Spec2Model ----
(***************************************************************************)
(* Model of utils/git_log_review_commits_advanced.py: the interactive      *)
(* commit review session and the release-log document it maintains.        *)
(*                                                                         *)
(* Text is modelled lexically: a line is a sequence of tokens (strings),   *)
(* its text is the concatenation of the tokens, and a file is a sequence   *)
(* of lines.  A run of '=' characters, a single space, a punctuation       *)
(* character, a word, a bug token "T<digits>" and a commit reference are   *)
(* each one token, so that the prefix, substring and strip tests of the    *)
(* code are computed on tokens.                                            *)
(***************************************************************************)
EXTENDS Integers, Sequences, FiniteSets, TLC

(* ------------------------------------------------------------------ *)
(* Program constants                                                   *)
(* ------------------------------------------------------------------ *)

IGNORE_START_LINE == "<!-- IGNORE_START -->"
IGNORE_END_LINE == "<!-- IGNORE_END -->"

\* Python's None, as a key of the release_log dict and as a category name.
None == "<None>"

\* An index or None (c1, c2, the result of get_cat): <<k>> or << >>.
NoIndex == << >>

BUGFIX_CATEGORIES ==
  << <<"Objects / Animation / GP",
       <<"Animation", "Constraints", "Grease Pencil", "Objects", "Dependency Graph">> >>,
     <<"Data / Geometry",
       <<"Armatures", "Curve/Text Editing", "Mesh Editing", "Meta Editing", "Modifiers",
         "Material / Texture">> >>,
     <<"Physics / Simulations / Sculpt / Paint",
       <<"Particles", "Physics / Hair / Simulations", "Sculpting / Painting">> >>,
     <<"Image / Video / Render",
       <<"Image / UV Editing", "Masking", "Motion Tracking", "Movie Clip Editor",
         "Nodes / Compositor", "Render", "Render: Cycles", "Render: Freestyle", "Sequencer">> >>,
     <<"UI / Spaces / Transform",
       <<"3D View", "Input (NDOF / 3D Mouse)", "Outliner", "Text Editor", "Transform",
         "User Interface">> >>,
     <<"Game Engine", << >> >>,
     <<"System / Misc",
       <<"Audio", "Collada", "File I/O", "Other", "Python", "System">> >> >>

\* main_cats = {m_cat[0] for m_cat in BUGFIX_CATEGORIES}
main_cats == { BUGFIX_CATEGORIES[i][1] : i \in 1..Len(BUGFIX_CATEGORIES) }

\* The keys of sub_cats_to_main_cats.
sub_cat_names ==
  UNION { { BUGFIX_CATEGORIES[i][2][j] : j \in 1..Len(BUGFIX_CATEGORIES[i][2]) } :
          i \in 1..Len(BUGFIX_CATEGORIES) }

\* sub_cats_to_main_cats.get(s, None)
sub_cats_to_main_cats(s) ==
  IF s \in sub_cat_names
    THEN BUGFIX_CATEGORIES[
           CHOOSE i \in 1..Len(BUGFIX_CATEGORIES) :
             \E j \in 1..Len(BUGFIX_CATEGORIES[i][2]) : BUGFIX_CATEGORIES[i][2][j] = s ][1]
    ELSE None

(* ------------------------------------------------------------------ *)
(* Text helpers                                                        *)
(* ------------------------------------------------------------------ *)

\* The elements of a sequence.
Range(q) == { q[k] : k \in 1..Len(q) }

SP == " "
NL == "\n"
PARA == "\n\n"

\* Tokens made of '=' characters only.
EqRuns == {"=", "==", "==="}

RECURSIVE Flatten(_)
Flatten(ss) == IF ss = << >> THEN << >> ELSE Head(ss) \o Flatten(Tail(ss))

RECURSIVE LStrip(_, _)
LStrip(l, chars) ==
  IF l # << >> /\ Head(l) \in chars THEN LStrip(Tail(l), chars) ELSE l

RECURSIVE RStrip(_, _)
RStrip(l, chars) ==
  IF l # << >> /\ l[Len(l)] \in chars THEN RStrip(SubSeq(l, 1, Len(l) - 1), chars) ELSE l

\* str.strip(chars), chars given as the set of tokens made of those characters.
Strip(l, chars) == RStrip(LStrip(l, chars), chars)

\* pat in l (substring test), pat a token sequence.
Contains(l, pat) ==
  \E i \in 1..(Len(l) - Len(pat) + 1) : SubSeq(l, i, i + Len(pat) - 1) = pat

\* l.startswith("==") and l.startswith("===")
StartsWith2(l) == l # << >> /\ l[1] \in {"==", "==="}
StartsWith3(l) == l # << >> /\ l[1] = "==="

\* The text left of a heading line by l.strip(" ="): one name token, or
\* the empty string.
HeadingName(l) ==
  LET s == Strip(l, EqRuns \cup {SP})
  IN IF s = << >> THEN "" ELSE IF Len(s) = 1 THEN s[1] ELSE "<text>"

(* ------------------------------------------------------------------ *)
(* Message transformer                                                 *)
(* ------------------------------------------------------------------ *)

\* Words matched by Fix(?:ing|es)? under re.IGNORECASE.
FixWords == {"Fix", "fix", "Fixes", "fixes", "Fixing", "fixing"}

\* Tokens matched by T([0-9]{1,}), and the digits captured.
BugToks == {"T1", "T2"}
BugNumber(t) == IF t = "T1" THEN "1" ELSE "2"

\* Tokens matched by [0-9a-fA-F]{6,} after the repository prefix "rB".
ShaToks == <<"c000000001", "c000000002", "c000000003", "c000000004", "c000000005", "c000000006",
             "c000000007", "c000000008", "c000000009", "c00000000a", "c00000000b", "c00000000c">>
HexToks == {"abcdef1"} \cup { ShaToks[i] : i \in 1..Len(ShaToks) }

\* Single characters matched by \W.
NonWordToks == {SP, ":", ",", ".", ";", "-", "|", "(", ")", "[", "]", "*"}

\* Number of characters of a token (for the .{,20}? window).  The window
\* is cut at a token boundary; it is exact for messages whose text before
\* the fix pattern has at most 20 characters, as those of Bodies have.
TokLen(t) ==
  CASE t \in NonWordToks -> 1
    [] t \in {"T1", "T2", "UI", "in"} -> 2
    [] t \in {"Fix", "fix", "for"} -> 3
    [] t \in {"Fixes", "fixes", "crash"} -> 5
    [] t \in {"Fixing", "fixing"} -> 6
    [] t \in {"Cleanup", "abcdef1"} -> 7
    [] t = "unreported" \/ \E i \in 1..Len(ShaToks) : t = ShaToks[i] -> 10
    [] t \in {"{{BugReport", "{{GitCommit"} -> 11
    [] t \in {"rB", "}}"} -> 2
    [] OTHER -> 1

RECURSIVE TextLen(_)
TextLen(l) == IF l = << >> THEN 0 ELSE TokLen(Head(l)) + TextLen(Tail(l))

\* The first index >= i of s whose token is not in chars (Len(s) + 1 if none).
RECURSIVE Skip(_, _, _)
Skip(s, i, chars) ==
  IF i <= Len(s) /\ s[i] \in chars THEN Skip(s, i + 1, chars) ELSE i

\* Group 2 of re_prettify, Fix(?:ing|es)?\s*(?:for)?\s*T([0-9]{1,}), tried
\* at index q: the index of the bug token, or 0 when it does not match.
FixAt(s, q) ==
  IF q > Len(s) \/ s[q] \notin FixWords THEN 0
  ELSE LET a == Skip(s, q + 1, {SP})
           b == IF a <= Len(s) /\ s[a] = "for" THEN Skip(s, a + 1, {SP}) ELSE a
       IN IF b <= Len(s) /\ s[b] \in BugToks THEN b ELSE 0

\* The end of a match, after the trailing \s*[-:,]*\s*.
FixEnd(s, b) == Skip(s, Skip(s, Skip(s, b + 1, {SP}), {"-", ":", ","}), {SP})

\* re_prettify.sub(r"Fix {{BugReport|\3}}: \1", s), scanning from index p.
\* Group 1, (.{,20}?), is the text of at most 20 characters before the
\* first occurrence of group 2 (taken from the end of the previous match).
RECURSIVE PrettifySub(_, _)
PrettifySub(s, p) ==
  LET occ == { q \in p..Len(s) : FixAt(s, q) # 0 }
  IN IF occ = {} THEN SubSeq(s, p, Len(s))
     ELSE LET q == CHOOSE x \in occ : \A y \in occ : x <= y
              st == CHOOSE x \in p..q :
                      /\ TextLen(SubSeq(s, x, q - 1)) <= 20
                      /\ \A y \in p..(x - 1) : TextLen(SubSeq(s, y, q - 1)) > 20
              b == FixAt(s, q)
          IN SubSeq(s, p, st - 1)
               \o <<"Fix", SP, "{{BugReport", "|", BugNumber(s[b]), "}}", ":", SP>>
               \o SubSeq(s, st, q - 1)
               \o PrettifySub(s, FixEnd(s, b))

\* re_bugify.sub(r"{{BugReport|\1}}", s)
RECURSIVE BugifySub(_)
BugifySub(s) ==
  IF s = << >> THEN << >>
  ELSE (IF Head(s) \in BugToks
          THEN <<"{{BugReport", "|", BugNumber(Head(s)), "}}">>
          ELSE <<Head(s)>>) \o BugifySub(Tail(s))

\* re_commitify.sub(r"{{GitCommit|\1}}", s): the match is the non-word
\* character before the reference together with the reference, so that
\* character is replaced too.
RECURSIVE CommitifySub(_)
CommitifySub(s) ==
  IF Len(s) < 3 THEN s
  ELSE IF s[1] \in NonWordToks /\ s[2] = "rB" /\ s[3] \in HexToks
         THEN <<"{{GitCommit", "|", "rB", s[3], "}}">> \o CommitifySub(SubSeq(s, 4, Len(s)))
         ELSE <<s[1]>> \o CommitifySub(Tail(s))

\* c.body.split("\n\n")[0]
FirstParagraph(body) ==
  IF \E i \in 1..Len(body) : body[i] = PARA
    THEN SubSeq(body, 1, (CHOOSE i \in 1..Len(body) :
                            body[i] = PARA /\ \A j \in 1..(i - 1) : body[j] # PARA) - 1)
    ELSE body

gen_commit_summary(c) ==
  LET s == Strip(FirstParagraph(c.body), {SP, ":", ".", ";", "-", NL})
  IN [i \in 1..Len(s) |-> IF s[i] = NL THEN SP ELSE s[i]]

\* unreported[0] after gen_commit_message_pretty(c, unreported)
gen_commit_unreported(c) ==
  PrettifySub(gen_commit_summary(c), 1) = gen_commit_summary(c)

gen_commit_message_pretty(c) ==
  LET body == gen_commit_summary(c)
      sub == PrettifySub(body, 1)
      tbody == IF sub = body THEN <<"Fix", SP, "unreported", ":", SP>> \o body ELSE sub
  IN CommitifySub(BugifySub(tbody))

\* gen_commit_pretty raises TypeError when rstate is None: its second
\* format string has two conversions for three arguments.
gen_commit_pretty_raises(rstate) == rstate = None

\* gen_commit_pretty(c, unreported, rstate) for rstate not None.
gen_commit_pretty(c, rstate) ==
  <<"*", SP, "[", rstate, "]", SP>> \o gen_commit_message_pretty(c)
    \o <<SP, "(", "{{GitCommit", "|", "rB", c.sha1, "}}", ")", ".">>

\* gen_commit_unprettify without the removal of the "* [state] " prefix.
gen_commit_unprettify_KeepState(body) ==
  LET starts == { q \in 2..(Len(body) - 3) :
                    SubSeq(body, q, q + 3) = <<"(", "{{GitCommit", "|", "rB">> }
  IN IF starts # {}
       THEN SubSeq(body, 1, (CHOOSE q \in starts : \A x \in starts : x <= q) - 2)
       ELSE body

\* gen_commit_unprettify(body).  body[end + 2:] drops the text up to the
\* first "]" and the character after it, a space in every entry line;
\* body[:start - 1] drops the last "({{GitCommit|rB" with what follows it
\* and the character before it.  Both tests are on a character index > 0.
gen_commit_unprettify(body) ==
  LET ends == { e \in 1..Len(body) : body[e] = "]" }
      b1 == IF Len(body) >= 3 /\ SubSeq(body, 1, 3) = <<"*", SP, "[">> /\ ends # {}
              THEN SubSeq(body, (CHOOSE e \in ends : \A x \in ends : e <= x) + 2, Len(body))
              ELSE body
      starts == { q \in 2..(Len(b1) - 3) : SubSeq(b1, q, q + 3) = <<"(", "{{GitCommit", "|", "rB">> }
  IN IF starts # {}
       THEN SubSeq(b1, 1, (CHOOSE q \in starts : \A x \in starts : x <= q) - 2)
       ELSE b1

(* ------------------------------------------------------------------ *)
(* Release log model: release_log_init                                 *)
(* ------------------------------------------------------------------ *)

\* Python dicts are functions; {} is the function with the empty domain.
EmptyDict == << >>
DictGet(d, k, default) == IF k \in DOMAIN d THEN d[k] ELSE default
DictPut(d, k, v) == [x \in (DOMAIN d) \cup {k} |-> IF x = k THEN v ELSE d[x]]

\* release_log.setdefault(main, ({}, {}))[which].setdefault(sub, []).append(l)
\* which = 1: reported entries, which = 2: unreported entries.
BucketAppend(cats, main, sub, which, l) ==
  LET pair == DictGet(cats, main, <<EmptyDict, EmptyDict>>)
      d == DictPut(pair[which], sub, Append(DictGet(pair[which], sub, << >>), l))
  IN DictPut(cats, main, [pair EXCEPT ![which] = d])

\* The entry list of a bucket, [] when a key is missing.
Bucket(cats, main, sub, which) ==
  DictGet(DictGet(cats, main, <<EmptyDict, EmptyDict>>)[which], sub, << >>)

\* "= Blender %s: Bug Fixes ="
TitleLine == <<"=", SP, "Blender 2.79: Bug Fixes", SP, "=">>

\* The revision range line of a new document (lines 305-311); rng stands
\* for each of the two short identifiers of the range.
RangeLineNew(rstate, rng) ==
  (IF rstate # None THEN <<"[", rstate, "]", SP>> ELSE << >>)
    \o <<"Changes from revision", SP, "{{GitCommit", "|", "rB", rng, "}}", SP, "to", SP,
         "{{GitCommit", "|", "rB", rng, "}}", ",", SP, "inclusive", ".">>

\* The revision range line added when a document exists (lines 354-362).
RangeLineBranch(rstate, rng) ==
  (IF rstate # None THEN <<"[", rstate, "]", SP>> ELSE << >>)
    \o <<"Changes from revision", SP, "{{GitCommit", "|", rng, "}}", SP, "to", SP,
         "{{GitCommit", "|", rng, "}}", ",", SP, "inclusive", SP, "(", "''main'' branch", ")", ".">>

\* The header text is kept as its newline-terminated lines.
\* "= Blender %s: Bug Fixes =\n\n<range line>\n\n"
HeaderNew(rstate, rng) == <<TitleLine, << >>, RangeLineNew(rstate, rng), << >>>>

\* A revision range line: "... Changes from revision ...".
IsRangeLine(l) == Contains(l, <<"Changes from revision">>)

\* HeaderJoin with the old revision range lines left out, so that the new
\* one replaces them.
HeaderJoin_Replace(header, rstate, rng) ==
  SelectSeq(header, LAMBDA l : ~IsRangeLine(l)) \o << RangeLineBranch(rstate, rng), << >> >>

\* "%s<range line>\n\n" % "\n".join(header): the range line continues the
\* last header line, the join puts no newline after it.
HeaderJoin(header, rstate, rng) ==
  SubSeq(header, 1, Len(header) - 1)
    \o << header[Len(header)] \o RangeLineBranch(rstate, rng), << >> >>

\* MainHeading with the name taken as the main category without the
\* reverse lookup.
MainHeading_NoLookup(st, l) ==
  [st EXCEPT !.sub_cat = None, !.main_cat = HeadingName(l)]

\* The heading rule of lines 343-349 and 376-382 ("==" headings, and every
\* heading met by the header loop).
MainHeading(st, l) ==
  LET name == HeadingName(l)
  IN IF name \notin main_cats
       THEN [st EXCEPT !.sub_cat = name, !.main_cat = sub_cats_to_main_cats(name)]
       ELSE [st EXCEPT !.sub_cat = None, !.main_cat = name]

\* SubHeading with the name of a main category taken as any other name
\* that is not a sub-category.
SubHeading_NoMainName(st, l) ==
  LET name == HeadingName(l)
  IN IF name \in sub_cat_names
       THEN [st EXCEPT !.sub_cat = name, !.main_cat = sub_cats_to_main_cats(name)]
       ELSE [st EXCEPT !.sub_cat = name, !.main_cat = None]

\* The heading rule of lines 366-374 ("===" headings).
SubHeading(st, l) ==
  LET name == HeadingName(l)
  IN IF name \in sub_cat_names
       THEN [st EXCEPT !.sub_cat = name, !.main_cat = sub_cats_to_main_cats(name)]
       ELSE IF name \in main_cats
         THEN [st EXCEPT !.sub_cat = None, !.main_cat = name]
         ELSE [st EXCEPT !.sub_cat = name, !.main_cat = None]

\* Lines 395-401: the unbracketed form of an entry tagged with a tracked label.
RStateAppend(rstates, l) ==
  LET l_rstate == Strip(l, {"*", SP})
  IN IF l_rstate # << >> /\ l_rstate[1] = "[" /\ \E e \in 1..Len(l_rstate) : l_rstate[e] = "]"
       THEN LET end == CHOOSE e \in 1..Len(l_rstate) :
                         l_rstate[e] = "]" /\ \A j \in 1..(e - 1) : l_rstate[j] # "]"
                label == IF end = 3 THEN l_rstate[2] ELSE IF end = 2 THEN "" ELSE "<text>"
            IN IF label \in DOMAIN rstates
                 THEN [rstates EXCEPT ![label] =
                         Append(@, <<"*", SP>> \o Strip(SubSeq(l_rstate, end + 1, Len(l_rstate)), {SP}))]
                 ELSE rstates
       ELSE rstates

\* EntryLine with an entry taken as reported when it has a bug report link
\* anywhere, not only the one that follows "Fix ".
EntryLine_AnyBugLink(st, l) ==
  LET which == IF Contains(l, <<"{{BugReport", "|">>) THEN 1 ELSE 2
  IN [st EXCEPT !.cats = BucketAppend(st.cats, st.main_cat, st.sub_cat, which, l),
                !.count[which] = @ + 1,
                !.rstates = RStateAppend(st.rstates, l)]

\* Lines 384-401: an entry line.
EntryLine(st, l) ==
  LET which == IF Contains(l, <<"Fix", SP, "{{BugReport", "|">>) THEN 1 ELSE 2
  IN [st EXCEPT !.cats = BucketAppend(st.cats, st.main_cat, st.sub_cat, which, l),
                !.count[which] = @ + 1,
                !.rstates = RStateAppend(st.rstates, l)]

\* ParseLine with the marker lines skipped and the lines between them
\* read as any other line.
ParseLine_MarkersOnly(st, raw) ==
  IF \E i \in 1..Len(raw) : raw[i] = IGNORE_END_LINE THEN [st EXCEPT !.ignore = FALSE]
  ELSE IF \E i \in 1..Len(raw) : raw[i] = IGNORE_START_LINE
    THEN [st EXCEPT !.ignore = TRUE]
  ELSE LET l == Strip(raw, {SP})
       IN CASE st.phase = "start" -> [st EXCEPT !.header = <<l>>, !.phase = "header"]
            [] st.phase = "header" ->
                 IF StartsWith2(l) THEN [MainHeading(st, l) EXCEPT !.phase = "body"]
                 ELSE [st EXCEPT !.header = Append(@, l)]
            [] OTHER ->
                 IF StartsWith3(l) THEN SubHeading(st, l)
                 ELSE IF StartsWith2(l) THEN MainHeading(st, l)
                 ELSE IF Contains(l, <<"Fix", SP>>) THEN EntryLine(st, l)
                 ELSE st

\* One iteration of "for l in f" (outer loop) or "for hl in f" (header loop):
\* both read the same file iterator, phase tells which loop is reading.
ParseLine(st, raw) ==
  IF \E i \in 1..Len(raw) : raw[i] = IGNORE_END_LINE THEN [st EXCEPT !.ignore = FALSE]
  ELSE IF st.ignore \/ \E i \in 1..Len(raw) : raw[i] = IGNORE_START_LINE
    THEN [st EXCEPT !.ignore = TRUE]
  ELSE LET l == Strip(raw, {SP})
       IN CASE st.phase = "start" -> [st EXCEPT !.header = <<l>>, !.phase = "header"]
            [] st.phase = "header" ->
                 IF StartsWith2(l) THEN [MainHeading(st, l) EXCEPT !.phase = "body"]
                 ELSE [st EXCEPT !.header = Append(@, l)]
            [] OTHER ->
                 IF StartsWith3(l) THEN SubHeading(st, l)
                 ELSE IF StartsWith2(l) THEN MainHeading(st, l)
                 ELSE IF Contains(l, <<"Fix", SP>>) THEN EntryLine(st, l)
                 ELSE st

RECURSIVE ParseLines(_, _, _)
ParseLines(st, f, k) ==
  IF k > Len(f) THEN st ELSE ParseLines(ParseLine(st, f[k]), f, k + 1)

\* Lines 321-324: the parser before the first line is read; rstates is
\* release_log["__RSTATES__"] as made at line 304.
ParseStart(rstates) ==
  [phase |-> "start", header |-> << >>, main_cat |-> None, sub_cat |-> None,
   ignore |-> FALSE, cats |-> EmptyDict, count |-> <<0, 0>>, rstates |-> rstates]

NoFile == <<"<no file>">>

\* release_log_init(path, ..., rstate, rstate_list), f the lines of the file
\* at path or NoFile, rng the short identifiers of the reviewed range.
release_log_init(f, rng, rstate, rstate_list) ==
  LET fresh == [header |-> HeaderNew(rstate, rng), count |-> <<0, 0>>, cats |-> EmptyDict,
                rstates |-> [k \in {rstate_list[i] : i \in 1..Len(rstate_list)} |-> << >>]]
  IN IF f = NoFile THEN fresh
     ELSE LET st == ParseLines(ParseStart(fresh.rstates), f, 1)
          IN IF st.phase = "start" THEN fresh
             ELSE [header |-> HeaderJoin(st.header, rstate, rng), count |-> st.count,
                   cats |-> st.cats, rstates |-> st.rstates]

\* The loop of release_log_extract_messages over the lines of a document:
\* the unprettified entry lines found after the first heading, outside
\* ignore blocks.
RECURSIVE ExtractLines(_, _, _, _)
ExtractLines(f, k, ignore, header) ==
  IF k > Len(f) THEN {}
  ELSE IF \E j \in 1..Len(f[k]) : f[k][j] = IGNORE_END_LINE
    THEN ExtractLines(f, k + 1, FALSE, header)
  ELSE IF ignore \/ \E j \in 1..Len(f[k]) : f[k][j] = IGNORE_START_LINE
    THEN ExtractLines(f, k + 1, TRUE, header)
  ELSE LET l == Strip(f[k], {SP})
       IN IF header /\ ~StartsWith2(l) THEN ExtractLines(f, k + 1, FALSE, TRUE)
          ELSE (IF ~StartsWith2(l) /\ Contains(l, <<"Fix", SP>>)
                  THEN {gen_commit_unprettify(l)} ELSE {})
                 \cup ExtractLines(f, k + 1, FALSE, FALSE)

\* release_log_extract_messages(path), f the lines of the file at path or NoFile.
release_log_extract_messages(f) ==
  IF f = NoFile THEN {} ELSE ExtractLines(f, 1, FALSE, TRUE)

(* ------------------------------------------------------------------ *)
(* Release log model: write_release_log                                *)
(* ------------------------------------------------------------------ *)

\* seq[k] of Python for a tuple: k counts from 0, a negative k counts from
\* the end, any other k raises IndexError.
PyIndexRaises(seq, k) == k >= Len(seq) \/ k < 0 - Len(seq)
PyIndex(seq, k) == IF k >= 0 THEN seq[k + 1] ELSE seq[Len(seq) + k + 1]

\* Lines 409-410 raise IndexError; nothing has been changed by then.
AddEntryIndexError(cat) ==
  \/ PyIndexRaises(BUGFIX_CATEGORIES, cat[1])
  \/ cat[2] # NoIndex /\ PyIndexRaises(PyIndex(BUGFIX_CATEGORIES, cat[1])[2], cat[2][1])

\* Lines 409-423.  cat = <<c1, c2>>, indices counted from 0 as in the code,
\* c2 = NoIndex for no sub-category.  The reported/unreported append and the
\* count happen before gen_commit_pretty(c) is called for a tracked label;
\* that call has rstate None and raises.
AddEntryRaises(release_log, rstate) == rstate \in DOMAIN release_log.rstates

\* AddEntry with only the reported entries counted.
AddEntry_CountReported(release_log, c, cat, rstate) ==
  LET main_cat == PyIndex(BUGFIX_CATEGORIES, cat[1])[1]
      sub_cats == PyIndex(BUGFIX_CATEGORIES, cat[1])[2]
      sub_cat == IF cat[2] # NoIndex THEN PyIndex(sub_cats, cat[2][1]) ELSE None
      which == IF gen_commit_unreported(c) THEN 2 ELSE 1
      entry == gen_commit_pretty(c, rstate)
  IN [release_log EXCEPT
        !.cats = BucketAppend(release_log.cats, main_cat, sub_cat, which, entry),
        !.count[1] = IF which = 1 THEN @ + 1 ELSE @]

\* AddEntry with an entry the bucket already holds not added again.
AddEntry_NoDuplicate(release_log, c, cat, rstate) ==
  LET main_cat == PyIndex(BUGFIX_CATEGORIES, cat[1])[1]
      sub_cats == PyIndex(BUGFIX_CATEGORIES, cat[1])[2]
      sub_cat == IF cat[2] # NoIndex THEN PyIndex(sub_cats, cat[2][1]) ELSE None
      which == IF gen_commit_unreported(c) THEN 2 ELSE 1
      entry == gen_commit_pretty(c, rstate)
  IN IF entry \in Range(Bucket(release_log.cats, main_cat, sub_cat, which))
       THEN [release_log EXCEPT !.count[which] = @ + 1]
       ELSE [release_log EXCEPT
               !.cats = BucketAppend(release_log.cats, main_cat, sub_cat, which, entry),
               !.count[which] = @ + 1]

AddEntry(release_log, c, cat, rstate) ==
  LET main_cat == PyIndex(BUGFIX_CATEGORIES, cat[1])[1]
      sub_cats == PyIndex(BUGFIX_CATEGORIES, cat[1])[2]
      sub_cat == IF cat[2] # NoIndex THEN PyIndex(sub_cats, cat[2][1]) ELSE None
      which == IF gen_commit_unreported(c) THEN 2 ELSE 1
      entry == gen_commit_pretty(c, rstate)
  IN [release_log EXCEPT
        !.cats = BucketAppend(release_log.cats, main_cat, sub_cat, which, entry),
        !.count[which] = @ + 1]

Heading2(name) == <<"==", SP, name, SP, "==">>
Heading3(name) == <<"===", SP, name, SP, "===">>

\* "for data in main_cat_data: entries = data.get(sub, []) ..." (lines
\* 431-435, 440-444, 453-457): each non-empty list, then an empty line.
EntryBlocks(cats, main, sub) ==
  LET blk(which) == IF Bucket(cats, main, sub, which) # << >>
                      THEN Bucket(cats, main, sub, which) \o << << >> >> ELSE << >>
  IN blk(1) \o blk(2)

\* Lines 438-446 for the sub-categories j..Len(sub_cats) of main category i.
RECURSIVE SubCatsLines(_, _, _)
SubCatsLines(cats, i, j) ==
  IF j > Len(BUGFIX_CATEGORIES[i][2]) THEN << >>
  ELSE LET sub_cat_lines == <<Heading3(BUGFIX_CATEGORIES[i][2][j])>>
                              \o EntryBlocks(cats, BUGFIX_CATEGORIES[i][1], BUGFIX_CATEGORIES[i][2][j])
       IN (IF Len(sub_cat_lines) > 2 THEN sub_cat_lines ELSE << >>) \o SubCatsLines(cats, i, j + 1)

\* MainCatLines without the test of line 447: the heading of a main
\* category is written whether or not it has entries.
MainCatLines_Always(cats, i) ==
  LET head == <<Heading2(BUGFIX_CATEGORIES[i][1])>> \o EntryBlocks(cats, BUGFIX_CATEGORIES[i][1], None)
  IN (IF Len(head) = 1 THEN Append(head, << >>) ELSE head) \o SubCatsLines(cats, i, 1)

\* MainCatLines with the sub-categories written before the entries that
\* have no sub-category.
MainCatLines_SubsFirst(cats, i) ==
  LET main_cat_lines == <<Heading2(BUGFIX_CATEGORIES[i][1])>> \o SubCatsLines(cats, i, 1)
                          \o EntryBlocks(cats, BUGFIX_CATEGORIES[i][1], None)
  IN IF Len(main_cat_lines) > 2 THEN main_cat_lines ELSE << >>

\* Lines 429-448 for main category i: its lines, or nothing.
MainCatLines(cats, i) ==
  LET head == <<Heading2(BUGFIX_CATEGORIES[i][1])>> \o EntryBlocks(cats, BUGFIX_CATEGORIES[i][1], None)
      main_cat_lines == (IF Len(head) = 1 THEN Append(head, << >>) ELSE head)
                          \o SubCatsLines(cats, i, 1)
  IN IF Len(main_cat_lines) > 2 THEN main_cat_lines ELSE << >>

RECURSIVE TreeLines(_, _)
TreeLines(cats, i) ==
  IF i > Len(BUGFIX_CATEGORIES) THEN << >> ELSE MainCatLines(cats, i) \o TreeLines(cats, i + 1)

\* Lines 450-459.  The first element is "== UNSORTED ==\n\n": the heading
\* and two empty lines once written.
UnsortedLines(cats) ==
  IF None \in DOMAIN cats
    THEN LET blocks == EntryBlocks(cats, None, None)
         IN IF 1 + Len(blocks) > 2
              THEN <<Heading2("UNSORTED"), << >>, << >>>> \o blocks ELSE << >>
    ELSE << >>

\* The text written by f.write("\n".join(lines)); f.write("\n").
CategoryLines(cats) ==
  LET lines == TreeLines(cats, 1) \o UnsortedLines(cats)
  IN IF lines = << >> THEN << << >> >> ELSE lines

TotalLine(count) ==
  <<"Total fixed bugs", ":", SP, ToString(count[1] + count[2]), SP, "(", ToString(count[1]), SP,
    "from tracker", ",", SP, ToString(count[2]), SP, "reported/found by other ways", ")", ".">>

NoteLine == <<"{{Note|Note|Before RC1 ...}}">>

\* Lines 465-472.
PreambleLines(count) ==
  << <<IGNORE_START_LINE>>, TotalLine(count), << >>, NoteLine, <<IGNORE_END_LINE>>, << >> >>

\* Lines 478-484.
RECURSIVE RStateLines(_, _, _)
RStateLines(rstates, rstate_list, i) ==
  IF i > Len(rstate_list) THEN << >>
  ELSE LET rst == rstate_list[i]
           entries == DictGet(rstates, rst, << >>)
       IN (IF entries # << >>
             THEN << Heading2(rst),
                     <<"For", SP, rst, ",", SP, ToString(Len(entries)), SP, "bugs were fixed", ":">>,
                     << >> >> \o entries \o << << >> >>
             ELSE << >>) \o RStateLines(rstates, rstate_list, i + 1)

\* Lines 477-485.
AppendixLines(rstates, rstate_list) ==
  << <<IGNORE_START_LINE>>, << >>, <<"<hr/>">>, << >> >>
    \o RStateLines(rstates, rstate_list, 1) \o << <<IGNORE_END_LINE>> >>

\* The successive pieces written to the file by lines 461-485.
RenderChunks(release_log, rstate_list) ==
  << release_log.header, PreambleLines(release_log.count), CategoryLines(release_log.cats),
     AppendixLines(release_log.rstates, rstate_list) >>

\* The complete document.
Render(release_log, rstate_list) == Flatten(RenderChunks(release_log, rstate_list))

(* ------------------------------------------------------------------ *)
(* The review session: main                                            *)
(* ------------------------------------------------------------------ *)

\* Bounds of the model.
MaxRuns == 2
MaxCommits == 2

\* The commit messages of the repository history, in turn: one with a fix
\* pattern, one with a bare bug token and no fix pattern, one with neither.
Bodies ==
  << <<"Fix", SP, "T1", ":", SP, "crash", PARA, "details">>,
     <<"crash", SP, "in", SP, "T2">>,
     <<"Cleanup", ".">> >>

\* The n-th commit of the history the commit source reads.
Repo(n) == [sha1 |-> ShaToks[n], body |-> Bodies[((n - 1) % Len(Bodies)) + 1]]

\* The n-th commit of the release branch: the n-th commit of the history
\* cherry-picked, so with its message and another identifier.
Picked(n) == [sha1 |-> ShaToks[n + 6],
              body |-> Repo(n).body \o <<PARA, "(cherry picked)">>]

\* Command lines: --accept-releaselog, --accept-pretty, --accept-log,
\* --blender-rstate, --blender-rstate-list, --filter, --range (the history
\* or the release branch) and --filter-exclude-fromreleaselogs (given the
\* release log document, or not given).
Options(releaselog, pretty, log, rstate, rstate_list, filter_type, range, exclude) ==
  [accept_releaselog |-> releaselog, accept_pretty |-> pretty, accept_log |-> log,
   rstate |-> rstate, rstate_list |-> rstate_list,
   filter_type |-> filter_type, range |-> range, exclude |-> exclude]

\* Command lines without a filter.
Configs ==
  { Options(TRUE, TRUE, TRUE, "alpha", <<"RC2">>, "", "main", FALSE),
    Options(TRUE, FALSE, FALSE, "RC2", <<"RC2">>, "", "main", FALSE),
    Options(FALSE, TRUE, FALSE, "alpha", <<"">>, "", "main", FALSE) }

\* Command lines with and without filters: a known filter type, an unknown
\* one, and the exclusion of the messages of the release log document in a
\* review of the release branch.
FilterConfigs ==
  { Options(TRUE, TRUE, TRUE, "alpha", <<"RC2">>, "", "main", FALSE),
    Options(FALSE, TRUE, FALSE, "alpha", <<"">>, "BUGFIX", "main", FALSE),
    Options(FALSE, FALSE, FALSE, "alpha", <<"">>, "FOO", "main", FALSE),
    Options(FALSE, FALSE, FALSE, "alpha", <<"">>, "", "release", TRUE) }

\* Keys read by getch(): b' ', b'\r', b'x', b'\x03', b'\x7f', letters, digits.
KeySpace == "space"
KeyEnter == "enter"
KeyBackspace == "backspace"
KeyCtrlC == "ctrl-c"
Keys == {KeySpace, KeyEnter, KeyBackspace, KeyCtrlC, "x", "v", "m", "0", "5", "9"}

\* An entry line as a previous run wrote it, or as a person typed it.
OldEntry(state, body, sha) ==
  <<"*", SP, "[", state, "]", SP>> \o body \o <<SP, "(", "{{GitCommit", "|", "rB", sha, "}}", ")", ".">>
OldReported == <<"Fix", SP, "{{BugReport", "|", "1", "}}", ":", SP, "crash">>
OldUnreported == <<"Fix", SP, "unreported", ":", SP, "Cleanup">>
UserNote == <<"hand-written note">>

\* Release-log documents found on disk by the first run: none, or a
\* document edited by hand since it was generated.
InitDocs ==
  { NoFile,
    << TitleLine, << >>,
       <<IGNORE_START_LINE>>, UserNote, <<IGNORE_END_LINE>>, << >>,
       Heading2("Data / Geometry"), OldEntry("alpha", OldReported, "abcdef1"), << >>,
       Heading3("Mesh Editing"), OldEntry("RC2", OldUnreported, "abcdef1"), << >>,
       Heading2("Old Stuff"), OldEntry("alpha", OldUnreported, "abcdef1"), << >>,
       Heading2("UNSORTED"), << >>, << >>, OldEntry("alpha", OldReported, "abcdef1"), << >> >> }

VARIABLES
  file,                \* review_accept_release_log.txt: NoFile or its lines
  accept_file,         \* review_accept.txt: identifiers
  reject_file,         \* review_reject.txt: identifiers
  accept_log_file,     \* review_accept_log.txt: lines
  accept_pretty_file,  \* review_accept_pretty.txt: lines
  args,                \* the command line of the current run
  release_log,         \* the release log dict of the current run
  commits,             \* the commits under review, oldest first
  i,                   \* index of the commit under review (from 1)
  tot_accept, tot_reject,
  c1, c2,              \* the category selection in progress
  pc,                  \* where the run is
  wpos,                \* number of pieces of the document written so far
  run,                 \* number of runs started that had a commit to review
  base,                \* number of commits of the history reviewed so far
  shown,               \* the totals printed by exit_message: <<accept, reject>>, or << >>
  start,               \* the files as the current run found them
  snap,                \* the files and the dict when commit i was shown
  filter_exclude_releaselogs  \* the messages read from the documents to exclude

vars == <<file, accept_file, reject_file, accept_log_file, accept_pretty_file, args,
          release_log, commits, i, tot_accept, tot_reject, c1, c2, pc, wpos, run, base,
          shown, start, snap, filter_exclude_releaselogs>>

NoLog == [header |-> << >>, count |-> <<0, 0>>, cats |-> EmptyDict, rstates |-> EmptyDict]

Records == [file |-> file, accept_file |-> accept_file, reject_file |-> reject_file,
            accept_log_file |-> accept_log_file, accept_pretty_file |-> accept_pretty_file,
            release_log |-> release_log]

Init ==
  /\ file \in InitDocs
  /\ accept_file = << >> /\ reject_file = << >>
  /\ accept_log_file = << >> /\ accept_pretty_file = << >>
  /\ args = CHOOSE a \in Configs : ~a.accept_releaselog
  /\ release_log = NoLog
  /\ commits = << >> /\ i = 0
  /\ tot_accept = 0 /\ tot_reject = 0
  /\ c1 = NoIndex /\ c2 = NoIndex
  /\ pc = "idle" /\ wpos = 0 /\ run = 0 /\ base = 0 /\ shown = << >>
  /\ start = [file |-> file, accept_file |-> << >>, reject_file |-> << >>]
  /\ snap = Records
  /\ filter_exclude_releaselogs = {}

\* gen_commit_log(c): "rB%s   %s   %-30s   %s"
gen_commit_log(c) ==
  <<"rB", c.sha1, SP, "2017/01/01", SP, "author", SP>> \o gen_commit_summary(c)

\* The tokens of a line that begin a word of line.split().
Words(line) == { line[k] : k \in { j \in 1..Len(line) : j = 1 \/ line[j - 1] \in {SP, NL, PARA} } }

\* c.body.strip().split("\n")[0]
FirstLine(body) ==
  LET b == Strip(body, {SP, NL, PARA})
      brk == { k \in 1..Len(b) : b[k] \in {NL, PARA} }
  IN IF brk = {} THEN b ELSE SubSeq(b, 1, (CHOOSE k \in brk : \A x \in brk : k <= x) - 1)

\* match(c) raises: an unknown filter type (line 600), or the assert on
\* an empty first line (lines 587 and 594).
match_raises(c, a) ==
  \/ a.filter_type \notin {"", "BUGFIX", "NOISE"}
  \/ a.filter_type = "BUGFIX" /\ gen_commit_summary(c) = << >>
  \/ a.filter_type = "NOISE" /\ FirstLine(c.body) = << >>

\* match(c), lines 581-617, messages the set read from the excluded
\* release logs; --author and --filter-exclude-sha1 are not given.
match(c, a, messages) ==
  /\ a.filter_type = "BUGFIX" =>
       Words(gen_commit_summary(c)) \cap (FixWords \cup {"Bugfix", "bugfix"}) # {}
  /\ a.filter_type = "NOISE" => Words(FirstLine(c.body)) \cap {"Cleanup", "cleanup"} # {}
  /\ messages # {} => gen_commit_message_pretty(c) \notin messages

\* Lines 563-633: a run starts.  The commit source yields the n commits of
\* the history that follow those of the previous runs, or the commits of
\* the release branch, which are the cherry-picks of the commits reviewed
\* so far, none of them recorded by a previous run.  The excluded messages are read, with
\* --accept-releaselog the release log dict is read from the document
\* (commits[-1] raises for an empty range), then the commits are filtered
\* by match, which may raise.  Without a commit left the loop is not
\* entered and exit_message() prints the totals.
StartRun(a, n) ==
  LET all == IF a.range = "release" THEN [k \in 1..n |-> Picked(k)]
             ELSE [k \in 1..n |-> Repo(base + k)]
      messages == IF a.exclude THEN release_log_extract_messages(file) ELSE {}
      raises == \/ a.accept_releaselog /\ n = 0
                \/ \E k \in 1..n : match_raises(all[k], a)
      found == IF raises THEN << >> ELSE SelectSeq(all, LAMBDA c : match(c, a, messages))
  IN /\ pc \in {"idle", "exited", "done", "crashed", "killed"}
     /\ run < MaxRuns
     /\ IF a.range = "release"
          THEN /\ n = base
               /\ \A k \in 1..n : Picked(k).sha1 \notin Range(accept_file) \cup Range(reject_file)
          ELSE base + n <= MaxCommits
     /\ run' = IF found = << >> THEN run ELSE run + 1
     /\ base' = IF a.range = "release" THEN base ELSE base + n
     /\ args' = a
     /\ commits' = found
     /\ release_log' = IF a.accept_releaselog /\ n > 0
                         THEN release_log_init(file, ToString(run + 1), a.rstate, a.rstate_list)
                         ELSE NoLog
     /\ i' = 1 /\ tot_accept' = 0 /\ tot_reject' = 0
     /\ c1' = NoIndex /\ c2' = NoIndex /\ wpos' = 0
     /\ pc' = IF raises THEN "crashed" ELSE IF found = << >> THEN "done" ELSE "prompt"
     /\ shown' = IF ~raises /\ found = << >> THEN <<0, 0>> ELSE << >>
     /\ start' = [file |-> file, accept_file |-> accept_file, reject_file |-> reject_file]
     /\ snap' = [Records EXCEPT !.release_log = release_log']
     /\ filter_exclude_releaselogs' = messages
     /\ UNCHANGED <<file, accept_file, reject_file, accept_log_file, accept_pretty_file>>

\* Lines 755-764 and the end of the for loop body: the decision on commit i
\* is appended to the flat files, then the next commit is shown, or
\* exit_message() prints the totals after the last one.  acc and rej are the
\* totals after the decision, rl and f the dict and the document after it.
Record(accepted, acc, rej, rl, f) ==
  LET c == commits[i]
      af == IF accepted THEN Append(accept_file, c.sha1) ELSE accept_file
      rf == IF accepted THEN reject_file ELSE Append(reject_file, c.sha1)
      pf == IF accepted /\ args.accept_pretty
              THEN Append(accept_pretty_file, gen_commit_pretty(c, args.rstate))
              ELSE accept_pretty_file
      lf == IF accepted /\ args.accept_log
              THEN Append(accept_log_file, gen_commit_log(c)) ELSE accept_log_file
  IN /\ accept_file' = af /\ reject_file' = rf
     /\ accept_pretty_file' = pf /\ accept_log_file' = lf
     /\ tot_accept' = acc /\ tot_reject' = rej
     /\ release_log' = rl /\ file' = f
     /\ c1' = NoIndex /\ c2' = NoIndex /\ wpos' = 0
     /\ i' = i + 1
     /\ pc' = IF i = Len(commits) THEN "done" ELSE "prompt"
     /\ shown' = IF i = Len(commits) THEN <<acc, rej>> ELSE << >>
     /\ snap' = [file |-> f, accept_file |-> af, reject_file |-> rf, accept_log_file |-> lf,
                 accept_pretty_file |-> pf, release_log |-> rl]
     /\ UNCHANGED <<args, filter_exclude_releaselogs, commits, run, base, start>>

\* Lines 679-683: the exit key at the accept/skip prompt.
PromptExit(ch) ==
  /\ pc = "prompt" /\ ch \in {KeyCtrlC, "x"}
  /\ shown' = <<tot_accept, tot_reject>>
  /\ pc' = "exited"
  /\ UNCHANGED <<file, accept_file, reject_file, accept_log_file, accept_pretty_file, args,
                 filter_exclude_releaselogs, release_log, commits, i, tot_accept, tot_reject, c1,
                 c2, wpos, run, base, start, snap>>

\* PromptAccept with the identifier appended to review_accept.txt as soon
\* as Space is pressed, before the category selection.
PromptAccept_WriteFirst(ch) ==
  /\ pc = "prompt" /\ ch = KeySpace
  /\ IF args.accept_releaselog
       THEN /\ tot_accept' = tot_accept + 1
            /\ c1' = NoIndex /\ c2' = NoIndex
            /\ pc' = "select"
            /\ accept_file' = Append(accept_file, commits[i].sha1)
            /\ UNCHANGED <<file, reject_file, accept_log_file, accept_pretty_file, args,
                           filter_exclude_releaselogs, release_log, commits, i, tot_reject, wpos,
                           run, base, shown, start, snap>>
       ELSE Record(TRUE, tot_accept + 1, tot_reject, release_log, file)

\* Lines 684-692 and 745: Space accepts; with --accept-releaselog the
\* category selection starts, otherwise the decision is recorded.
PromptAccept(ch) ==
  /\ pc = "prompt" /\ ch = KeySpace
  /\ IF args.accept_releaselog
       THEN /\ tot_accept' = tot_accept + 1
            /\ c1' = NoIndex /\ c2' = NoIndex
            /\ pc' = "select"
            /\ UNCHANGED <<file, accept_file, reject_file, accept_log_file, accept_pretty_file,
                           args, filter_exclude_releaselogs, release_log, commits, i, tot_reject,
                           wpos, run, base, shown, start, snap>>
       ELSE Record(TRUE, tot_accept + 1, tot_reject, release_log, file)

\* Lines 746-751: Enter skips.
PromptSkip(ch) ==
  /\ pc = "prompt" /\ ch = KeyEnter
  /\ Record(FALSE, tot_accept, tot_reject + 1, release_log, file)

\* Lines 752-753: any other key.
PromptInvalid(ch) ==
  /\ pc = "prompt" /\ ch \notin {KeyCtrlC, "x", KeySpace, KeyEnter}
  /\ UNCHANGED vars

\* get_cat(ch, max_idx): the index, or None.  int(ch) fails for a key that
\* is not a digit and cat stays -1.
get_cat(ch, max_idx) ==
  LET cat == CASE ch = "0" -> 0 [] ch = "5" -> 5 [] ch = "9" -> 9 [] OTHER -> -1
  IN IF 0 <= cat /\ cat < max_idx THEN <<cat>> ELSE NoIndex

\* SelectBackspace without the decrement of line 740.
SelectBackspace_KeepTotal(ch) ==
  /\ pc = "select" /\ ch = KeyBackspace
  /\ c1' = NoIndex /\ c2' = NoIndex
  /\ pc' = "prompt"
  /\ UNCHANGED <<file, accept_file, reject_file, accept_log_file, accept_pretty_file, args,
                 filter_exclude_releaselogs, release_log, commits, i, tot_accept, tot_reject,
                 wpos, run, base, shown, start, snap>>

\* Lines 710-712 and 738-741: Backspace leaves the selection, the commit
\* is neither accepted nor rejected and the prompt is shown again.
SelectBackspace(ch) ==
  /\ pc = "select" /\ ch = KeyBackspace
  /\ tot_accept' = tot_accept - 1
  /\ c1' = NoIndex /\ c2' = NoIndex
  /\ pc' = "prompt"
  /\ UNCHANGED <<file, accept_file, reject_file, accept_log_file, accept_pretty_file, args,
                 filter_exclude_releaselogs, release_log, commits, i, tot_reject, wpos, run,
                 base, shown, start, snap>>

\* Lines 713-717: the exit key during the selection.
SelectExit(ch) ==
  /\ pc = "select" /\ ch \in {KeyCtrlC, "x"}
  /\ shown' = <<tot_accept, tot_reject>>
  /\ pc' = "exited"
  /\ UNCHANGED <<file, accept_file, reject_file, accept_log_file, accept_pretty_file, args,
                 filter_exclude_releaselogs, release_log, commits, i, tot_accept, tot_reject, c1,
                 c2, wpos, run, base, start, snap>>

\* Lines 718-723: V and M print and ask again.
SelectView(ch) ==
  /\ pc = "select" /\ ch \in {"v", "m"}
  /\ UNCHANGED vars

\* Lines 406-461 of write_release_log, called at line 743 with (c1, c2):
\* the entry is added to the dict; a tracked release state then raises;
\* otherwise the document is opened for writing, which empties it.
CallWriteReleaseLog(k1, k2) ==
  /\ release_log' = AddEntry(release_log, commits[i], <<k1, k2>>, args.rstate)
  /\ c1' = <<k1>> /\ c2' = k2
  /\ IF AddEntryRaises(release_log, args.rstate)
       THEN pc' = "crashed" /\ UNCHANGED file
       ELSE pc' = "writing" /\ file' = << >>
  /\ wpos' = 0
  /\ UNCHANGED <<accept_file, reject_file, accept_log_file, accept_pretty_file, args,
                 filter_exclude_releaselogs, commits, i, tot_accept, tot_reject, run, base,
                 shown, start, snap>>

\* SelectMain without the test of lines 700-701: the sub-category prompt
\* is shown for every main category.
SelectMain_AskSub(ch) ==
  /\ pc = "select" /\ c1 = NoIndex
  /\ ch \notin {KeyBackspace, KeyCtrlC, "x", "v", "m"}
  /\ c1' = get_cat(ch, Len(BUGFIX_CATEGORIES))
  /\ UNCHANGED <<file, accept_file, reject_file, accept_log_file, accept_pretty_file, args,
                 filter_exclude_releaselogs, release_log, commits, i, tot_accept, tot_reject, c2,
                 pc, wpos, run, base, shown, start, snap>>

\* Lines 724-725 and 694-701: a main category key.  An invalid key asks
\* again; a main category without sub-categories ends the selection.
SelectMain(ch) ==
  /\ pc = "select" /\ c1 = NoIndex
  /\ ch \notin {KeyBackspace, KeyCtrlC, "x", "v", "m"}
  /\ LET k == get_cat(ch, Len(BUGFIX_CATEGORIES))
     IN IF k # NoIndex /\ BUGFIX_CATEGORIES[k[1] + 1][2] = << >>
          THEN CallWriteReleaseLog(k[1], NoIndex)
          ELSE /\ c1' = k
               /\ UNCHANGED <<file, accept_file, reject_file, accept_log_file,
                              accept_pretty_file, args, filter_exclude_releaselogs, release_log,
                              commits, i, tot_accept, tot_reject, c2, pc, wpos, run, base, shown,
                              start, snap>>

\* Lines 726-734: a sub-category key.  Enter selects no sub-category, an
\* invalid key asks again.
SelectSub(ch) ==
  /\ pc = "select" /\ c1 # NoIndex
  /\ ch \notin {KeyBackspace, KeyCtrlC, "x", "v", "m"}
  /\ LET k == get_cat(ch, Len(BUGFIX_CATEGORIES[c1[1] + 1][2]))
     IN IF ch = KeyEnter \/ k # NoIndex
          THEN CallWriteReleaseLog(c1[1], IF ch = KeyEnter THEN NoIndex ELSE k)
          ELSE UNCHANGED vars

\* Lines 462-484: the next piece of the document is written.
WriteChunk ==
  /\ pc = "writing" /\ wpos < 3
  /\ file' = file \o RenderChunks(release_log, args.rstate_list)[wpos + 1]
  /\ wpos' = wpos + 1
  /\ UNCHANGED <<accept_file, reject_file, accept_log_file, accept_pretty_file, args,
                 filter_exclude_releaselogs, release_log, commits, i, tot_accept, tot_reject, c1,
                 c2, pc, run, base, shown, start, snap>>

\* Lines 477-485, then 745-764: the last piece is written, the file is
\* closed and the acceptance is recorded.
WriteFinish ==
  /\ pc = "writing" /\ wpos = 3
  /\ Record(TRUE, tot_accept, tot_reject, release_log,
            file \o RenderChunks(release_log, args.rstate_list)[4])

\* The process is interrupted or the write fails while the document is
\* open for writing: the run ends with the file as written so far.
WriteInterrupted ==
  /\ pc = "writing"
  /\ pc' = "killed"
  /\ UNCHANGED <<file, accept_file, reject_file, accept_log_file, accept_pretty_file, args,
                 filter_exclude_releaselogs, release_log, commits, i, tot_accept, tot_reject, c1,
                 c2, wpos, run, base, shown, start, snap>>

Next ==
  \/ \E a \in Configs, n \in 1..MaxCommits : StartRun(a, n)
  \/ \E ch \in Keys : PromptExit(ch)
  \/ \E ch \in Keys : PromptAccept(ch)
  \/ \E ch \in Keys : PromptSkip(ch)
  \/ \E ch \in Keys : PromptInvalid(ch)
  \/ \E ch \in Keys : SelectBackspace(ch)
  \/ \E ch \in Keys : SelectExit(ch)
  \/ \E ch \in Keys : SelectView(ch)
  \/ \E ch \in Keys : SelectMain(ch)
  \/ \E ch \in Keys : SelectSub(ch)
  \/ WriteChunk
  \/ WriteFinish
  \/ WriteInterrupted

Spec == Init /\ [][Next]_vars

\* The sessions with the filter options, and with ranges without commits.
FilterNext ==
  \/ \E a \in FilterConfigs, n \in 0..MaxCommits : StartRun(a, n)
  \/ \E ch \in Keys : PromptExit(ch)
  \/ \E ch \in Keys : PromptAccept(ch)
  \/ \E ch \in Keys : PromptSkip(ch)
  \/ \E ch \in Keys : PromptInvalid(ch)
  \/ \E ch \in Keys : SelectBackspace(ch)
  \/ \E ch \in Keys : SelectExit(ch)
  \/ \E ch \in Keys : SelectView(ch)
  \/ \E ch \in Keys : SelectMain(ch)
  \/ \E ch \in Keys : SelectSub(ch)
  \/ WriteChunk
  \/ WriteFinish
  \/ WriteInterrupted

FilterSpec == Init /\ [][FilterNext]_vars

(* ------------------------------------------------------------------ *)
(* release_log_init and write_release_log called on their own          *)
(* ------------------------------------------------------------------ *)

\* Bound on the number of write_release_log calls.
MaxCalls == 2

\* Commit messages: one with a fix pattern, one whose summary is empty, one
\* that already carries a bug report link and a commit link.
ApiBodies ==
  << <<"Fix", SP, "T1", ":", SP, "crash">>,
     <<".", PARA, "details">>,
     <<"Fix", SP, "{{BugReport", "|", "1", "}}", ":", SP, "see", SP,
       "{{GitCommit", "|", "rB", "abcdef1", "}}">> >>

ApiCommit(n) == [sha1 |-> ShaToks[n], body |-> ApiBodies[n]]

\* Category indices a caller passes as cat: valid ones, negative ones and
\* ones past the end of the tree or of the sub-categories.
ApiCats ==
  { <<0, NoIndex>>, <<0, <<0>>>>, <<0 - 1, NoIndex>>, <<0, <<0 - 1>>>>,
    <<7, NoIndex>>, <<0, <<5>>>>, <<5, <<0>>>> }

\* Documents edited by hand: a line a inside an ignore block of the header
\* (none for a = << >>), a main heading with an entry, then a line b,
\* inside an ignore block or not, then another entry.
ApiDoc(a, b, ignored) ==
  << TitleLine, << >> >>
    \o (IF a = << >> THEN << >> ELSE << <<IGNORE_START_LINE>>, a, <<IGNORE_END_LINE>> >>)
    \o << Heading2("Data / Geometry"), OldEntry("alpha", OldReported, "abcdef1") >>
    \o (IF ignored THEN << <<IGNORE_START_LINE>>, b, <<IGNORE_END_LINE>> >> ELSE <<b>>)
    \o << OldEntry("RC2", OldUnreported, "abcdef1") >>

ApiDocs ==
  { NoFile } \cup
  { ApiDoc(a, b, ignored) :
      a \in { << >>, Heading2("Game Engine") },
      b \in { Heading3("Animation"), Heading3("Game Engine"), Heading3("Old Stuff"),
              Heading2("Animation"),
              OldEntry("RC2", OldReported, "abcdef1") },
      ignored \in BOOLEAN }

\* The state before release_log_init is called for the document at path.
ApiInit ==
  /\ file \in ApiDocs
  /\ accept_file = << >> /\ reject_file = << >>
  /\ accept_log_file = << >> /\ accept_pretty_file = << >>
  /\ args \in { a \in Configs : a.accept_releaselog }
  /\ release_log = NoLog
  /\ commits = << >> /\ i = 0
  /\ tot_accept = 0 /\ tot_reject = 0
  /\ c1 = NoIndex /\ c2 = NoIndex
  /\ pc = "api_start" /\ wpos = 0 /\ run = 0 /\ base = 0 /\ shown = << >>
  /\ start = [file |-> file, accept_file |-> << >>, reject_file |-> << >>]
  /\ snap = Records
  /\ filter_exclude_releaselogs = {}

\* release_log_init(path, ...): the dict is read from the document.
ApiParse ==
  /\ pc = "api_start"
  /\ release_log' = release_log_init(file, "1", args.rstate, args.rstate_list)
  /\ pc' = "api"
  /\ snap' = [Records EXCEPT !.release_log = release_log']
  /\ UNCHANGED <<file, accept_file, reject_file, accept_log_file, accept_pretty_file, args,
                 filter_exclude_releaselogs, commits, i, tot_accept, tot_reject, c1, c2, wpos,
                 run, base, shown, start>>

\* release_log_extract_messages(path): the messages of the document are
\* read, nothing else is done with it.
ApiExtract ==
  /\ pc = "api_start"
  /\ filter_exclude_releaselogs' = release_log_extract_messages(file)
  /\ pc' = "api_read"
  /\ UNCHANGED <<file, accept_file, reject_file, accept_log_file, accept_pretty_file, args,
                 release_log, commits, i, tot_accept, tot_reject, c1, c2, wpos, run, base,
                 shown, start, snap>>

\* write_release_log(path, release_log, c, cat, rstate, rstate_list), the
\* whole call: an index past the end raises before anything is changed, a
\* tracked release state raises after the entry is added, otherwise the
\* document is written.  commits holds the commits of the calls made, c1
\* and c2 the indices of the last call, snap the dict and the files before it.
ApiWrite(c, cat) ==
  /\ pc = "api" /\ Len(commits) < MaxCalls
  /\ commits' = Append(commits, c)
  /\ c1' = <<cat[1]>> /\ c2' = cat[2]
  /\ snap' = Records
  /\ IF AddEntryIndexError(cat)
       THEN pc' = "api_error" /\ UNCHANGED <<release_log, file>>
       ELSE /\ release_log' = AddEntry(release_log, c, cat, args.rstate)
            /\ IF AddEntryRaises(release_log, args.rstate)
                 THEN pc' = "api_error" /\ UNCHANGED file
                 ELSE pc' = "api" /\ file' = Render(release_log', args.rstate_list)
  /\ UNCHANGED <<accept_file, reject_file, accept_log_file, accept_pretty_file, args,
                 filter_exclude_releaselogs, i, tot_accept, tot_reject, wpos, run, base, shown,
                 start>>

ApiNext ==
  \/ ApiParse
  \/ ApiExtract
  \/ \E n \in 1..Len(ApiBodies), cat \in ApiCats : ApiWrite(ApiCommit(n), cat)

ApiSpec == ApiInit /\ [][ApiNext]_vars

(* ------------------------------------------------------------------ *)
(* Properties                                                          *)
(* ------------------------------------------------------------------ *)

\* The release log is in use in the current run.
LogInUse == run > 0 /\ args.accept_releaselog

\* The document has been rewritten completely in the current run.
Rewritten == LogInUse /\ pc \in {"prompt", "select", "done", "exited"} /\ file # start.file

\* Every key of a sub-category level of a dict.
SubKeys(cats) == UNION { (DOMAIN cats[m][1]) \cup (DOMAIN cats[m][2]) : m \in DOMAIN cats }

\* Two dicts hold the same ordered entry list in every bucket.
SameBuckets(a, b) ==
  \A m \in main_cats \cup {None} \cup (DOMAIN a) \cup (DOMAIN b) :
    \A sc \in sub_cat_names \cup {None} \cup SubKeys(a) \cup SubKeys(b) :
      \A which \in 1..2 : Bucket(a, m, sc, which) = Bucket(b, m, sc, which)

\* parse(render(m)) for the dict of the current run.
Reparsed == release_log_init(Render(release_log, args.rstate_list), "next", args.rstate,
                             args.rstate_list)

ParsedEntries(f) ==
  LET cats == release_log_init(f, "any", "alpha", << >>).cats
  IN UNION { UNION { Range(cats[m][1][sc]) : sc \in DOMAIN cats[m][1] }
               \cup UNION { Range(cats[m][2][sc]) : sc \in DOMAIN cats[m][2] } :
             m \in DOMAIN cats }

\* The lines of a document, without surrounding spaces.
StrippedLines(f) == IF f = NoFile THEN {} ELSE { Strip(f[k], {SP}) : k \in 1..Len(f) }

\* C2 (as claimed): no entry is dropped.  Every entry line the parser
\* accepted in the document the run found is a line of the document once
\* the run has rewritten it, entries under a heading that is not in the
\* category tree and entries under the UNSORTED heading included.
C2_NoEntryDropped ==
  Rewritten => \A e \in ParsedEntries(start.file) : e \in StrippedLines(file)

\* C3 (as claimed): every rendered document has the heading of every main
\* category of the tree, also of those without entries.
C3_AllMainHeadings ==
  Rewritten => \A n \in 1..Len(BUGFIX_CATEGORIES) :
                 Heading2(BUGFIX_CATEGORIES[n][1]) \in Range(file)

\* The "==" headings of a document that name a main category, in order.
RECURSIVE MainHeadings(_)
MainHeadings(f) ==
  IF f = << >> THEN << >>
  ELSE (IF StartsWith2(Head(f)) /\ ~StartsWith3(Head(f)) /\ HeadingName(Head(f)) \in main_cats
          THEN <<HeadingName(Head(f))>> ELSE << >>) \o MainHeadings(Tail(f))

\* The "===" headings of a document that name a sub-category, in order.
RECURSIVE SubHeadings(_)
SubHeadings(f) ==
  IF f = << >> THEN << >>
  ELSE (IF StartsWith3(Head(f)) /\ HeadingName(Head(f)) \in sub_cat_names
          THEN <<HeadingName(Head(f))>> ELSE << >>) \o SubHeadings(Tail(f))

\* Main category n has an entry in one of its buckets.
MainHasEntries(cats, n) ==
  \E sc \in {None} \cup Range(BUGFIX_CATEGORIES[n][2]) : \E which \in 1..2 :
    Bucket(cats, BUGFIX_CATEGORIES[n][1], sc, which) # << >>

\* The main categories from n on that have entries, in tree order.
RECURSIVE MainsWithEntries(_, _)
MainsWithEntries(cats, n) ==
  IF n > Len(BUGFIX_CATEGORIES) THEN << >>
  ELSE (IF MainHasEntries(cats, n) THEN <<BUGFIX_CATEGORIES[n][1]>> ELSE << >>)
         \o MainsWithEntries(cats, n + 1)

\* C3 (amended): the rendering of every dict has the heading of exactly the
\* main categories that have an entry in one of their buckets, in tree
\* order; the rendering of a dict with no entries has no main-category and
\* no sub-category heading.
C3_MainHeadingsWithEntries ==
  LogInUse =>
    LET doc == Render(release_log, args.rstate_list)
    IN /\ MainHeadings(doc) = MainsWithEntries(release_log.cats, 1)
       /\ (release_log.count = <<0, 0>> => MainHeadings(doc) = << >> /\ SubHeadings(doc) = << >>)
       /\ (Rewritten => MainHeadings(file) = MainsWithEntries(release_log.cats, 1))

\* C3 witness: a written document with the headings of two main categories
\* and not those of the others; and before it, in the same run, a dict with
\* no entries.
C3_Witness ==
  /\ Rewritten /\ pc = "done"
  /\ Len(MainHeadings(file)) = 2
  /\ release_log.count[1] + release_log.count[2] = 2
  /\ start.file = NoFile

\* The unbracketed rendering of a commit, "* prose ({{GitCommit|rB<id>}}).".
UnbracketedEntry(c) ==
  <<"*", SP>> \o gen_commit_message_pretty(c)
    \o <<SP, "(", "{{GitCommit", "|", "rB", c.sha1, "}}", ")", ".">>

\* C4 (as claimed): write_release_log with a tracked release state completes:
\* the step that adds the entry to a bucket and counts it also appends the
\* unbracketed rendering to the list of that state, and goes on to rewrite
\* the document.
C4_TrackedStateCompletes ==
  [][(LogInUse /\ release_log'.count # release_log.count /\ run' = run
        /\ args.rstate \in DOMAIN release_log.rstates)
      => /\ pc' = "writing"
         /\ release_log'.rstates[args.rstate]
              = Append(release_log.rstates[args.rstate], UnbracketedEntry(commits[i]))]_vars

\* C5 (as claimed): the totals printed at exit count the commits whose
\* identifier was written to the accept or reject file in this run, also
\* after a category selection was abandoned.
C5_TotalsCountWritten ==
  shown # << >> =>
    /\ shown[1] = Len(accept_file) - Len(start.accept_file)
    /\ shown[2] = Len(reject_file) - Len(start.reject_file)

\* Lines of a file that name the identifier sha after "rB".
Mentions(f, sha) == { k \in 1..Len(f) : Contains(f[k], <<"rB", sha>>) }

\* Every entry of every bucket of a dict.
AllEntries(cats) ==
  UNION { UNION { Range(cats[m][1][sc]) : sc \in DOMAIN cats[m][1] }
            \cup UNION { Range(cats[m][2][sc]) : sc \in DOMAIN cats[m][2] } :
          m \in DOMAIN cats }

\* C6: when the session is left with the exit key, at the accept/skip prompt
\* or during the category selection, nothing of the commit under review is
\* recorded: its identifier is in neither flat file, no line of the log and
\* pretty files, no line of the document and no entry of the dict names it,
\* and all files and the dict are as they were when the commit was shown.
C6_AbortRecordsNothing ==
  pc = "exited" =>
    LET sha == commits[i].sha1
    IN /\ sha \notin Range(accept_file) \cup Range(reject_file)
       /\ Mentions(accept_log_file, sha) = {} /\ Mentions(accept_pretty_file, sha) = {}
       /\ (file # NoFile => Mentions(file, sha) = {})
       /\ \A e \in AllEntries(release_log.cats) : ~Contains(e, <<"rB", sha>>)
       /\ Records = snap

\* C6 witness: the exit key at the sub-category prompt of the second
\* commit, the first one accepted and recorded in every file.
C6_Witness ==
  /\ pc = "exited" /\ LogInUse /\ i = 2 /\ c1 # NoIndex
  /\ Len(accept_file) = 1 /\ Len(accept_log_file) = 1 /\ Len(accept_pretty_file) = 1
  /\ Rewritten

\* C7 (as claimed): the rewrite is an atomic replace.  In every state the
\* document is the complete previous one (as it was when the commit under
\* review was shown) or the complete new one.
C7_AtomicReplace ==
  LogInUse => file = snap.file \/ file = Render(release_log, args.rstate_list)

\* Lines strictly inside an ignore block of a document.
RECURSIVE InIgnore(_, _, _)
InIgnore(f, k, ignore) ==
  IF k > Len(f) THEN {}
  ELSE IF IGNORE_END_LINE \in Range(f[k]) THEN InIgnore(f, k + 1, FALSE)
  ELSE IF IGNORE_START_LINE \in Range(f[k]) THEN InIgnore(f, k + 1, TRUE)
  ELSE (IF ignore THEN {f[k]} ELSE {}) \cup InIgnore(f, k + 1, ignore)

\* C8 (as claimed): the text a person placed inside an ignore block of the
\* document the run found is still in the document after the rewrite.
C8_IgnoreBlockSurvives ==
  (Rewritten /\ start.file # NoFile /\ UserNote \in InIgnore(start.file, 1, FALSE))
     => UserNote \in Range(file)

\* The header lines the parser reads from a document: the lines outside
\* ignore blocks before the first heading.
HeaderOf(f) ==
  ParseLines([phase |-> "start", header |-> << >>, main_cat |-> None, sub_cat |-> None,
              ignore |-> FALSE, cats |-> EmptyDict, count |-> <<0, 0>>, rstates |-> EmptyDict],
             f, 1).header

\* The number of revision ranges named in header lines.
RECURSIVE RangeCount(_)
RangeCount(h) ==
  IF h = << >> THEN 0
  ELSE Cardinality({ k \in 1..Len(Head(h)) : Head(h)[k] = "Changes from revision" })
         + RangeCount(Tail(h))

\* The run found a document with a line outside ignore blocks and has
\* rewritten it.
RewrittenExisting == Rewritten /\ start.file # NoFile /\ HeaderOf(start.file) # << >>

\* C9 (as claimed): when a run starts from an existing document, the old
\* revision range line is replaced, so the header of the rewritten document
\* names exactly one revision range.
C9_OneRangeLine ==
  RewrittenExisting => RangeCount(HeaderOf(file)) = 1

\* C9 (amended): when a run starts from an existing document, the header of
\* the rewritten document is the old header lines, old revision range lines
\* included, with one new revision range line appended to the last of them;
\* the header names one revision range more than before.
C9_HeaderAppendsRange ==
  RewrittenExisting =>
    LET old == HeaderOf(start.file)
        new == HeaderOf(file)
        n == Len(old)
    IN /\ new = SubSeq(old, 1, n - 1)
                  \o << old[n] \o RangeLineBranch(args.rstate, ToString(run)), << >>, << >> >>
       /\ RangeCount(new) = RangeCount(old) + 1

\* C9 witness: the second run rewrites the document the first run wrote;
\* its header then names two revision ranges.
C9_Witness ==
  /\ RewrittenExisting /\ run = 2
  /\ RangeCount(HeaderOf(start.file)) = 1
  /\ RangeCount(HeaderOf(file)) = 2

\* Index of a main category in the tree, 0 for any other name.
MainIndex(name) ==
  IF name \in main_cats
    THEN CHOOSE n \in 1..Len(BUGFIX_CATEGORIES) : BUGFIX_CATEGORIES[n][1] = name ELSE 0

\* Index of a sub-category among those of main category n, 0 if it is none.
SubIndex(n, name) ==
  IF n > 0 /\ name \in Range(BUGFIX_CATEGORIES[n][2])
    THEN CHOOSE j \in 1..Len(BUGFIX_CATEGORIES[n][2]) : BUGFIX_CATEGORIES[n][2][j] = name ELSE 0

\* The category part of a rendered document read top down: each heading and
\* each entry with the main category heading (m) and the sub-category
\* heading (sc, 0 for none) it stands under.
RECURSIVE Tagged(_, _, _)
Tagged(f, m, sc) ==
  IF f = << >> THEN << >>
  ELSE LET l == Head(f)
       IN IF StartsWith3(l)
            THEN <<[kind |-> "heading", m |-> m, sc |-> SubIndex(m, HeadingName(l)), line |-> l]>>
                   \o Tagged(Tail(f), m, SubIndex(m, HeadingName(l)))
          ELSE IF StartsWith2(l)
            THEN <<[kind |-> "heading", m |-> MainIndex(HeadingName(l)), sc |-> 0, line |-> l]>>
                   \o Tagged(Tail(f), MainIndex(HeadingName(l)), 0)
          ELSE IF l = << >> THEN Tagged(Tail(f), m, sc)
          ELSE <<[kind |-> "entry", m |-> m, sc |-> sc, line |-> l]>> \o Tagged(Tail(f), m, sc)

RECURSIVE LinesOf(_)
LinesOf(t) == IF t = << >> THEN << >> ELSE <<Head(t).line>> \o LinesOf(Tail(t))

Listed(f) ==
  { n \in 1..Len(Bodies) :
      \E rs \in {"alpha", "RC2"} : gen_commit_pretty(Repo(n), rs) \in StrippedLines(f) }

\* C11: exclusion by message.  In a run given the release log document as
\* an excluded release log, no commit under review has the prose of a
\* commit the document lists, whatever its identifier.
C11_ExcludedByMessage ==
  (run > 0 /\ args.exclude) =>
     \A k \in 1..Len(commits) : \A n \in Listed(start.file) :
        gen_commit_message_pretty(commits[k]) # gen_commit_message_pretty(Repo(n))

\* C11 witness: the document lists the first commit of the history; of the
\* two commits of the release branch, the cherry-pick of the first one is
\* filtered out and the other one is under review.
C11_Witness ==
  /\ run > 0 /\ args.exclude /\ pc = "prompt"
  /\ Listed(start.file) = {1}
  /\ Len(commits) = 1 /\ commits[1].sha1 = Picked(2).sha1
  /\ gen_commit_message_pretty(Picked(1)) = gen_commit_message_pretty(Repo(1))
  /\ Picked(1).sha1 # Repo(1).sha1

\* C12 (as claimed): unprettify inverse.  For every commit under review and
\* for the release state of the run as for no release state (None),
\* gen_commit_pretty gives an entry line, and gen_commit_unprettify of
\* that line is the prose gen_commit_message_pretty gives for the commit.
C12_UnprettifyInverse ==
  run > 0 =>
    \A k \in 1..Len(commits) : \A rs \in {None, args.rstate} :
       /\ ~gen_commit_pretty_raises(rs)
       /\ gen_commit_unprettify(gen_commit_pretty(commits[k], rs))
            = gen_commit_message_pretty(commits[k])

\* The link markers of a text: {{BugReport|<n>}} and {{GitCommit|rB<hex>}}.
Markers(s) ==
  { SubSeq(s, k, k + 3) : k \in { j \in 1..(Len(s) - 3) :
      s[j] = "{{BugReport" /\ s[j + 1] = "|" /\ s[j + 3] = "}}" } }
  \cup
  { SubSeq(s, k, k + 4) : k \in { j \in 1..(Len(s) - 4) :
      s[j] = "{{GitCommit" /\ s[j + 1] = "|" /\ s[j + 2] = "rB" /\ s[j + 4] = "}}" } }

\* A marker is opened inside a marker that is not closed yet.
Nested(s) ==
  \E k, j \in 1..Len(s) :
    /\ k < j /\ s[k] \in {"{{BugReport", "{{GitCommit"} /\ s[j] \in {"{{BugReport", "{{GitCommit"}
    /\ \A x \in (k + 1)..(j - 1) : s[x] # "}}"

\* C13 (as claimed): fix pattern idempotence.  For every commit given to
\* write_release_log whose summary already carries link markers, each of
\* them is in the transformed message as it is in the summary, and no
\* marker of the transformed message is wrapped in another one.
C13_MarkersNotRewrapped ==
  \A k \in 1..Len(commits) :
    LET body == gen_commit_summary(commits[k])
        out == gen_commit_message_pretty(commits[k])
    IN Markers(body) # {} =>
         /\ \A mk \in Markers(body) : Contains(out, mk)
         /\ ~Nested(out)

\* A write_release_log call has been made; its commit and its indices.
Called == pc \in {"api", "api_error"} /\ commits # << >>
LastCommit == commits[Len(commits)]
LastCat == <<c1[1], c2>>

\* Indices inside the tree, counted from 0.
ValidCat(cat) ==
  /\ cat[1] \in 0..(Len(BUGFIX_CATEGORIES) - 1)
  /\ cat[2] # NoIndex => cat[2][1] \in 0..(Len(BUGFIX_CATEGORIES[cat[1] + 1][2]) - 1)

\* C14 (as claimed): empty message.  A write_release_log call for a commit
\* whose summary is empty fails, adds no entry to any bucket and leaves
\* both counts as they were (stated for a release state that is not
\* tracked, for which the call does not fail for another reason).
C14_EmptyMessageRejected ==
  (/\ Called /\ ValidCat(LastCat) /\ gen_commit_summary(LastCommit) = << >>
   /\ ~AddEntryRaises(snap.release_log, args.rstate)) =>
     /\ pc = "api_error"
     /\ release_log.cats = snap.release_log.cats
     /\ release_log.count = snap.release_log.count

\* C15 (as claimed): invalid category.  A write_release_log call with a
\* main category index or a sub-category index outside the tree, negative
\* indices included, fails and leaves the dict (buckets, counts, release
\* state lists) and the document as they were (stated for a release state
\* that is not tracked).
C15_InvalidCategoryRejected ==
  (Called /\ ~ValidCat(LastCat) /\ ~AddEntryRaises(snap.release_log, args.rstate)) =>
     /\ pc = "api_error"
     /\ release_log = snap.release_log
     /\ file = snap.file

\* C16 (as claimed): unknown filter mode.  A run started with a filter
\* type other than BUGFIX, NOISE or none ends in a failure, whatever the
\* commits of its range, and no output file has been created or changed.
C16_UnknownFilterFails ==
  (pc # "idle" /\ args.filter_type \notin {"", "BUGFIX", "NOISE"}) =>
     /\ pc = "crashed"
     /\ Records = snap

\* C17: count conservation.  For a dict made for a document that does not
\* exist yet, after N write_release_log calls that got past the category
\* lookup the two counts add up to N, and the last call has added one to
\* exactly one of them and left the other as it was.
C17_CountConservation ==
  (/\ start.file = NoFile /\ pc \in {"api", "api_error"}
   /\ Called => ~AddEntryIndexError(LastCat)) =>
     /\ release_log.count[1] + release_log.count[2] = Len(commits)
     /\ Called =>
          \E w \in {1, 2} :
            /\ release_log.count[w] = snap.release_log.count[w] + 1
            /\ release_log.count[3 - w] = snap.release_log.count[3 - w]

\* Two calls have been made for a new document, one for a commit with a
\* bug report and one for a commit without.
C17_Witness ==
  /\ start.file = NoFile /\ pc = "api" /\ Len(commits) = MaxCalls
  /\ ValidCat(LastCat)
  /\ release_log.count[1] >= 1 /\ release_log.count[2] >= 1

\* The buckets of a dict: (main category, side, sub-category) keys.
BucketKeys(log) ==
  UNION { { <<mw[1], mw[2], sc>> : sc \in DOMAIN log.cats[mw[1]][mw[2]] } :
            mw \in (DOMAIN log.cats) \X {1, 2} }

\* The bucket a call with valid indices selects.
Selected(c, cat) ==
  << BUGFIX_CATEGORIES[cat[1] + 1][1],
     IF gen_commit_unreported(c) THEN 2 ELSE 1,
     IF cat[2] = NoIndex THEN None ELSE BUGFIX_CATEGORIES[cat[1] + 1][2][cat[2][1] + 1] >>

\* C18: write_release_log is append-only.  A call with valid indices adds
\* one entry at the end of the bucket selected by the indices and by the
\* unreported flag of the commit; every entry the dict held before, parsed
\* from the document or added by an earlier call, keeps its text and its
\* place, in the selected bucket and in every other one; a commit given
\* twice gets two entries.
C18_AppendOnly ==
  (Called /\ ValidCat(LastCat)) =>
     LET sel == Selected(LastCommit, LastCat)
         old == Bucket(snap.release_log.cats, sel[1], sel[3], sel[2])
         new == Bucket(release_log.cats, sel[1], sel[3], sel[2])
     IN /\ Len(new) = Len(old) + 1
        /\ SubSeq(new, 1, Len(old)) = old
        /\ new[Len(new)] = gen_commit_pretty(LastCommit, args.rstate)
        /\ BucketKeys(release_log) = BucketKeys(snap.release_log) \cup {sel}
        /\ \A key \in BucketKeys(snap.release_log) \ {sel} :
             Bucket(release_log.cats, key[1], key[3], key[2])
               = Bucket(snap.release_log.cats, key[1], key[3], key[2])

\* The same commit has been given twice with the same indices, for a
\* document that had entries: the bucket holds its entry twice.
C18_Witness ==
  /\ pc = "api" /\ Len(commits) = 2 /\ commits[1] = commits[2]
  /\ start.file # NoFile /\ ValidCat(LastCat)
  /\ LET sel == Selected(LastCommit, LastCat)
         new == Bucket(release_log.cats, sel[1], sel[3], sel[2])
     IN /\ Len(new) >= 2
        /\ new[Len(new)] = new[Len(new) - 1]
        /\ BucketKeys(snap.release_log) \ {sel} # {}

\* The parser after the first k lines of a document.
ParseState(f, k) ==
  ParseLines(ParseStart([r \in Range(args.rstate_list) |-> << >>]), SubSeq(f, 1, k), 1)

\* Line k of the document is a "===" heading read by the outer loop,
\* outside ignore blocks.
TripleAt(f, k) ==
  /\ ParseState(f, k - 1).phase = "body"
  /\ ~ParseState(f, k - 1).ignore /\ ~ParseState(f, k).ignore
  /\ IGNORE_END_LINE \notin Range(f[k])
  /\ StartsWith3(Strip(f[k], {SP}))

\* The entry line that follows line k, if there is one, is in a bucket of
\* the dict under (main, sub).
FiledUnder(f, k, main, sub) ==
  (k < Len(f) /\ Contains(f[k + 1], <<"Fix", SP>>)) =>
     \E w \in {1, 2} : Strip(f[k + 1], {SP}) \in Range(Bucket(release_log.cats, main, sub, w))

\* The dict is the one release_log_init has read from the document.
Parsed == pc = "api" /\ commits = << >> /\ file # NoFile

\* C19 (amended): triple-marker headings.  After the parser reads
\* "=== Name ===": for Name a known sub-category the position is (owning
\* main category, Name); for Name the name of a main category it is
\* (Name, no sub-category); for every other Name the main category is
\* cleared and the sub-category is Name.  The entry that follows is filed
\* under that position.
C19_TripleHeading ==
  Parsed =>
    \A k \in 1..Len(file) : TripleAt(file, k) =>
      LET name == HeadingName(file[k])
          st == ParseState(file, k)
      IN /\ name \in sub_cat_names =>
              /\ st.sub_cat = name
              /\ \E m \in 1..Len(BUGFIX_CATEGORIES) :
                   /\ st.main_cat = BUGFIX_CATEGORIES[m][1]
                   /\ name \in Range(BUGFIX_CATEGORIES[m][2])
         /\ name \in main_cats => (st.main_cat = name /\ st.sub_cat = None)
         /\ name \notin sub_cat_names \cup main_cats => (st.main_cat = None /\ st.sub_cat = name)
         /\ FiledUnder(file, k, st.main_cat, st.sub_cat)

\* A document with "=== Game Engine ===", the name of a main category,
\* has been read, and the entry after it is filed under that category.
C19_Witness ==
  /\ Parsed
  /\ \E k \in 1..(Len(file) - 1) :
       /\ TripleAt(file, k) /\ HeadingName(file[k]) \in main_cats
       /\ Contains(file[k + 1], <<"Fix", SP>>)
       /\ Strip(file[k + 1], {SP}) \in Range(Bucket(release_log.cats, HeadingName(file[k]), None, 2))

\* C19 (as claimed): for every Name that is not a known sub-category the
\* main category is cleared and the entries that follow are filed in the
\* bucket of no main category.
C19_UnknownClearsMain ==
  Parsed =>
    \A k \in 1..Len(file) :
      (TripleAt(file, k) /\ HeadingName(file[k]) \notin sub_cat_names) =>
         /\ ParseState(file, k).main_cat = None
         /\ FiledUnder(file, k, None, ParseState(file, k).sub_cat)

\* Line k of a document lies between a start marker line and the end
\* marker line that follows it (or the end of the document).
Inside(f, k) ==
  \E b \in 1..(k - 1) :
    /\ IGNORE_START_LINE \in Range(f[b]) /\ IGNORE_END_LINE \notin Range(f[b])
    /\ \A j \in (b + 1)..k : IGNORE_END_LINE \notin Range(f[j])

\* The document without the lines inside its ignore blocks, from line k on;
\* the marker lines stay.
RECURSIVE DropIgnored(_, _)
DropIgnored(f, k) ==
  IF k > Len(f) THEN << >>
  ELSE (IF Inside(f, k) THEN << >> ELSE <<f[k]>>) \o DropIgnored(f, k + 1)

\* C20: ignore blocks.  The lines between a start marker and an end marker
\* do not change what is read from a document: release_log_init gives the
\* dict (header, buckets, counts, release state lists) and ends on the
\* main and sub-category it gives for the document without these lines,
\* and release_log_extract_messages gives the same messages, for blocks
\* in the header region and after the first heading.
C20_IgnoredLinesSkipped ==
  /\ Parsed =>
       LET g == DropIgnored(file, 1)
       IN /\ release_log = release_log_init(g, "1", args.rstate, args.rstate_list)
          /\ ParseState(file, Len(file)).main_cat = ParseState(g, Len(g)).main_cat
          /\ ParseState(file, Len(file)).sub_cat = ParseState(g, Len(g)).sub_cat
  /\ (pc = "api_read" /\ file # NoFile) =>
       filter_exclude_releaselogs = release_log_extract_messages(DropIgnored(file, 1))

\* A document has been read that has a heading inside an ignore block of
\* its header region and an entry inside an ignore block after the first
\* heading.
C20_Witness ==
  /\ Parsed
  /\ \E k \in 1..Len(file) :
       /\ Inside(file, k) /\ ParseState(file, k).phase = "header"
       /\ StartsWith2(Strip(file[k], {SP}))
  /\ \E k \in 1..Len(file) :
       /\ Inside(file, k) /\ ParseState(file, k).phase = "body"
       /\ Contains(file[k], <<"Fix", SP>>)

\* write_release_log has just written the document.
Written == pc = "api" /\ commits # << >>

\* The entry lines of the category sections of a document: the lines with
\* "Fix " outside the ignore blocks.
SectionEntries(f) ==
  { k \in 1..Len(f) :
      /\ ~Inside(f, k)
      /\ IGNORE_START_LINE \notin Range(f[k]) /\ IGNORE_END_LINE \notin Range(f[k])
      /\ ~StartsWith2(f[k])
      /\ Contains(f[k], <<"Fix", SP>>) }

\* Those that begin with "* [L]".
Labelled(f, L) ==
  { k \in SectionEntries(f) : Len(f[k]) >= 5 /\ SubSeq(f[k], 1, 5) = <<"*", SP, "[", L, "]">> }

\* "For L, K bugs were fixed:"
ForLine(L, K) == <<"For", SP, L, ",", SP, ToString(K), SP, "bugs were fixed", ":">>

C22_BackspaceToMainSelection ==
  [][(pc = "select" /\ c1 # NoIndex /\ SelectBackspace(KeyBackspace)) =>
        /\ pc' = "select" /\ c1' = NoIndex
        /\ i' = i /\ tot_accept' = tot_accept
        /\ UNCHANGED <<file, accept_file, reject_file, accept_log_file, accept_pretty_file>>]_vars

\* What the current run has appended to the two flat files.
NewAccepted == SubSeq(accept_file, Len(start.accept_file) + 1, Len(accept_file))
NewRejected == SubSeq(reject_file, Len(start.reject_file) + 1, Len(reject_file))

\* The identifiers of the first n commits under review that are in set S,
\* oldest first.
DecidedIn(n, S) ==
  LET ids == [k \in 1..n |-> commits[k].sha1]
  IN SelectSeq(ids, LAMBDA x : x \in S)

\* C23: session accounting.  At every accept/skip prompt and at the normal
\* end of the session: both flat files begin with what they held when the
\* run started; the accept total is the number of identifiers the run has
\* appended to review_accept.txt and, with the release log in use, the
\* number of entries the run has added to the dict; the reject total is
\* the number of identifiers appended to review_reject.txt; the commits
\* decided are the first i - 1 of the sequence, each of them in exactly one
\* of the two appended parts, in the order of the sequence.
C23_SessionAccounting ==
  (run > 0 /\ pc \in {"prompt", "done"}) =>
     /\ SubSeq(accept_file, 1, Len(start.accept_file)) = start.accept_file
     /\ SubSeq(reject_file, 1, Len(start.reject_file)) = start.reject_file
     /\ tot_accept = Len(NewAccepted)
     /\ tot_reject = Len(NewRejected)
     /\ tot_accept + tot_reject = i - 1
     /\ Range(NewAccepted) \cap Range(NewRejected) = {}
     /\ NewAccepted = DecidedIn(i - 1, Range(NewAccepted))
     /\ NewRejected = DecidedIn(i - 1, Range(NewRejected))
     /\ \A k \in 1..(i - 1) : commits[k].sha1 \in Range(NewAccepted) \cup Range(NewRejected)
     /\ args.accept_releaselog =>
          LET parsed == release_log_init(start.file, "1", args.rstate, args.rstate_list).count
          IN release_log.count[1] + release_log.count[2] = parsed[1] + parsed[2] + tot_accept

\* The session has ended after one commit was accepted into the release
\* log and one was skipped.
C23_Witness ==
  /\ pc = "done" /\ LogInUse
  /\ tot_accept = 1 /\ tot_reject = 1
  /\ Len(NewAccepted) = 1 /\ Len(NewRejected) = 1

\* C24: the category pair of write_release_log.  Whatever keys are
\* pressed, the call is made with c1 an index of a main category and c2
\* None or an index of a sub-category of main category c1; the
\* sub-category prompt is shown only for a main category that has
\* sub-categories, so that for Game Engine the call is made with c2 None
\* as soon as the main category is chosen.
C24_ValidCategoryPairs ==
  LogInUse =>
    /\ pc \in {"writing", "crashed"} => (c1 # NoIndex /\ ValidCat(LastCat))
    /\ (pc = "select" /\ c1 # NoIndex) =>
         /\ c1[1] \in 0..(Len(BUGFIX_CATEGORIES) - 1)
         /\ BUGFIX_CATEGORIES[c1[1] + 1][2] # << >>
         /\ c2 = NoIndex

\* write_release_log has been called for Game Engine, with no sub-category.
C24_Witness ==
  /\ LogInUse /\ pc = "writing"
  /\ c1 # NoIndex /\ BUGFIX_CATEGORIES[c1[1] + 1] = <<"Game Engine", << >> >>
  /\ c2 = NoIndex

\* C25 (as claimed): the summary line.  In every document written, the
\* line "Total fixed bugs: N (R from tracker, U reported/found by other
\* ways)." has N = R + U, R the number of entry lines of the category
\* sections of that document that have "Fix {{BugReport|", U the number of
\* the other entry lines of these sections.
C25_TotalMatchesEntries ==
  Written =>
    LET E == SectionEntries(file)
        R == { k \in E : Contains(file[k], <<"Fix", SP, "{{BugReport", "|">>) }
    IN TotalLine(<<Cardinality(R), Cardinality(E \ R)>>) \in Range(file)

\* The main category that owns a sub-category of the tree.
Owns(main, sub) ==
  \E m \in 1..Len(BUGFIX_CATEGORIES) :
    main = BUGFIX_CATEGORIES[m][1] /\ sub \in Range(BUGFIX_CATEGORIES[m][2])

\* The positions of the claim: (main category, None), (owner, sub-category)
\* or (None, a name that is not in the tree).
TreePosition(main, sub) ==
  \/ main \in main_cats /\ sub = None
  \/ sub \in sub_cat_names /\ Owns(main, sub)
  \/ main = None /\ sub \notin sub_cat_names \cup main_cats \cup {None}

\* C26: parser position.  After every line read by release_log_init the
\* position is (None, None) as long as no heading has been read, and from
\* the first heading on it is (a main category, None), (the owner of a
\* sub-category, that sub-category) or (None, a name that is not in the
\* tree), for "==" and for "===" headings; so every bucket of the dict
\* read from a document lies at such a position, a bucket of a known
\* sub-category under the main category that owns it.
C26_ParserPosition ==
  Parsed =>
    /\ \A k \in 0..Len(file) :
         LET st == ParseState(file, k)
         IN IF st.phase = "body" THEN TreePosition(st.main_cat, st.sub_cat)
                                 ELSE st.main_cat = None /\ st.sub_cat = None /\ st.cats = EmptyDict
    /\ \A key \in BucketKeys(release_log) : TreePosition(key[1], key[3])

\* A document has been read in which a sub-category name is written with
\* a double marker after the heading of another main category, and the
\* entry after it is filed under the owner of the sub-category.
C26_Witness ==
  /\ Parsed
  /\ \E k \in 2..(Len(file) - 1) :
       LET name == HeadingName(file[k])
           st == ParseState(file, k)
       IN /\ ~StartsWith3(file[k]) /\ StartsWith2(file[k]) /\ ~st.ignore
          /\ name \in sub_cat_names
          /\ ParseState(file, k - 1).main_cat \in main_cats
          /\ ~Owns(ParseState(file, k - 1).main_cat, name)
          /\ Owns(st.main_cat, name) /\ st.sub_cat = name
          /\ Strip(file[k + 1], {SP}) \in Range(Bucket(release_log.cats, st.main_cat, name, 2))

====
